---- MODULE Spec2Model ----
(***************************************************************************)
(* Hail-swath ingestion: the per-day pipeline (pipeline/transformer.py),   *)
(* the request path that shares it (api/routers/swaths.py), the Postgres   *)
(* swath store (db/repository.py), the S3 listing and the local file cache *)
(* (ingest/fetcher.py) and the extraction (processing/polygonize.py).      *)
(*                                                                         *)
(* Abstractions.  Magnitudes are integers in hundredths of an inch.  Time  *)
(* is counted in half days: slot t is midnight (t even) or noon (t odd) of *)
(* calendar date t \div 2.  An S3 key of the product is identified by the  *)
(* timestamp embedded in its name, and so is the cached local file.  A     *)
(* grid is one row of cells; a geometry is the set of cells it covers.     *)
(* The store is the table heap (a sequence of rows); each connection has   *)
(* its own uncommitted rows (READ COMMITTED).  The invocations of the      *)
(* pipeline are numbered in the order they begin, each has a connection of *)
(* its own, and the instant an extraction reads from the clock             *)
(* (created_at) is named by the number of its run.                         *)
(***************************************************************************)
EXTENDS Integers, Sequences, FiniteSets, TLC

\* ---- bounds -------------------------------------------------------------
MaxRuns == 2
GridCells == 2
MaxDay == 2
MaxPool == 2
MaxFeatures == 3
MaxArrays == 3
ScenarioSize == 6
gaussian_sigma == 3

\* ---- program constants --------------------------------------------------
THRESHOLDS_INCHES == <<50, 75, 100, 125, 150, 175, 200, 225, 250, 275>>
DEFAULT_THRESHOLDS == THRESHOLDS_INCHES
min_area_deg2 == 1
CellArea == 100

Runs == 1..MaxRuns
\* the day the daily job asks for
Dates == {0}
\* the timestamps of the bucket's keys: noon of day 0 and midnight of day 1
Slots == {1, 2}
Cells == 1..GridCells
NaN == -1
Absent == <<>>
\* a file holds no data, hail of 0.60 in or hail of 0.80 in
GridValues == {NaN, 60, 80}
Grid(v) == [c \in Cells |-> v]
Grids == {Grid(v) : v \in GridValues}
\* the buckets the runs are driven with: each key is absent or present, and
\* the hail of the day has grown from 0.60 in at noon to 0.80 in at midnight
Buckets == {b \in [Slots -> Grids \cup {Absent}] : b[1] # Grid(80) /\ b[2] # Grid(60)}
NoBbox == <<>>

\* ---- generic helpers ----------------------------------------------------
\* variant: keys[0], the oldest key
First(s) == s[1]

\* keys[-1]
Last(s) == s[Len(s)]

SetMin(S) == CHOOSE x \in S : \A y \in S : x <= y
SetMax(S) == CHOOSE x \in S : \A y \in S : y <= x

RECURSIVE SortAsc(_)
SortAsc(S) == IF S = {} THEN <<>> ELSE <<SetMin(S)>> \o SortAsc(S \ {SetMin(S)})

RECURSIVE InsertDesc(_, _)
InsertDesc(x, s) ==
    IF s = <<>> THEN <<x>>
    ELSE IF x >= Head(s) THEN <<x>> \o s
    ELSE <<Head(s)>> \o InsertDesc(x, Tail(s))

\* variant: the thresholds are taken in the order given
Unsorted(s) == s

\* sorted(thresholds, reverse=True): duplicates are kept
RECURSIVE SortedReverse(_)
SortedReverse(s) == IF s = <<>> THEN <<>> ELSE InsertDesc(Head(s), SortedReverse(Tail(s)))

RECURSIVE Flatten(_)
Flatten(ss) == IF ss = <<>> THEN <<>> ELSE Head(ss) \o Flatten(Tail(ss))

SeqToSet(s) == {s[i] : i \in 1..Len(s)}

\* ---- time ---------------------------------------------------------------
DateOf(t) == t \div 2
\* variant: the window starts at midnight of the day
start_of_day_midnight(d) == 2 * d

\* datetime(year, month, day, 12, 0, 0): noon of day d
start_of_day(d) == 2 * d + 1
end_of_day(d) == start_of_day(d) + 2

\* ---- ingest/fetcher.py --------------------------------------------------
Raise == <<-1>>

\* variant: the exception of a listing reaches the caller
list_files_propagating(b, start, end, thrown) ==
    IF thrown \cap (DateOf(start)..DateOf(end)) # {} THEN Raise
    ELSE SortAsc({t \in Slots : b[t] # Absent /\ start <= t /\ t <= end})

\* An S3 key: the date folder it is listed under and the timestamp at the
\* end of its file name, BadStamp when that part is no timestamp.
BadStamp == -1
None == <<>>
Key(folder, stamp) == [folder |-> folder, stamp |-> stamp]

\* the parsed timestamp as a list of one element, None when parsing fails
_parse_timestamp_from_filename(key) == IF key.stamp = BadStamp THEN None ELSE <<key.stamp>>

\* the order of the key strings: the folder first, then the file name
KeyBefore(a, b) == a.folder < b.folder \/ (a.folder = b.folder /\ a.stamp < b.stamp)

RECURSIVE SortKeys(_)
SortKeys(S) ==
    IF S = {} THEN <<>>
    ELSE LET first == CHOOSE k \in S : \A other \in S \ {k} : KeyBefore(k, other)
         IN  <<first>> \o SortKeys(S \ {first})

\* variant: a key stamped exactly at the end of the window is left out
matching_keys_before_end(objects, start, end, thrown) ==
    SortKeys({k \in objects :
                /\ k.folder \in DateOf(start)..DateOf(end)
                /\ k.folder \notin thrown
                /\ LET timestamp == _parse_timestamp_from_filename(k)
                   IN  timestamp # None /\ start <= timestamp[1] /\ timestamp[1] < end})

\* the body of list_files on the objects of the bucket: one listing per date
\* prefix between start.date() and end.date(); a listing that throws is
\* logged and contributes no key; a key whose timestamp does not parse is
\* skipped; the keys stamped in [start, end] are returned sorted
matching_keys(objects, start, end, thrown) ==
    SortKeys({k \in objects :
                /\ k.folder \in DateOf(start)..DateOf(end)
                /\ k.folder \notin thrown
                /\ LET timestamp == _parse_timestamp_from_filename(k)
                   IN  timestamp # None /\ start <= timestamp[1] /\ timestamp[1] <= end})

\* the objects of a bucket whose files are identified by their timestamp
Objects(b) == {Key(DateOf(t), t) : t \in {u \in Slots : b[u] # Absent}}

\* list_files on such a bucket, each key given by its timestamp
list_files(b, start, end, thrown) ==
    LET keys == matching_keys(Objects(b), start, end, thrown)
    IN  [i \in 1..Len(keys) |-> keys[i].stamp]

\* fetch_file on a cache directory given as a function from the names of
\* decompressed files to their contents.  A key is the name of its
\* decompressed file and whether the object is gzipped; object is what S3
\* holds under the key at the time of the call; outcome says whether the
\* call goes through, s3.download_file raises, or _decompress_gz raises
\* while it copies.  The result is the path returned (none when the call
\* raised), the cache directory left behind and the number of downloads.
FinalName(key) == key.name

Store(cache, name, content) ==
    [n \in DOMAIN cache \cup {name} |-> IF n = name THEN content ELSE cache[n]]

\* what open(decompressed_path, "wb") and an interrupted copy leave behind
Partial == "partial"

\* variant: the download is made whether or not the file is in the cache
fetch_file_always(cache, key, object, outcome) ==
    IF outcome # "ok" THEN [path |-> <<>>, cache |-> cache, downloads |-> 1]
    ELSE [path |-> <<FinalName(key)>>, cache |-> Store(cache, FinalName(key), object),
          downloads |-> 1]

fetch_file(cache, key, object, outcome) ==
    IF FinalName(key) \in DOMAIN cache
    THEN [path |-> <<FinalName(key)>>, cache |-> cache, downloads |-> 0]
    ELSE IF outcome = "download raises"
    THEN [path |-> <<>>, cache |-> cache, downloads |-> 1]
    ELSE IF key.gz /\ outcome = "decompress raises"
    THEN [path |-> <<>>, cache |-> Store(cache, FinalName(key), Partial), downloads |-> 1]
    ELSE [path |-> <<FinalName(key)>>, cache |-> Store(cache, FinalName(key), object),
          downloads |-> 1]

\* ---- processing/decoder.py -----------------------------------------------
\* Raw values are in tenths of a millimetre, decoded ones in hundredths of an
\* inch; MRMS_MISSING_VALUE stands for the largest magnitude of the format.
MRMS_MISSING_VALUE == 20000000
MM_PER_INCH == 254

\* variant: the unit conversion comes before the two replacements
decode_values_converting_first(raw) ==
    [c \in Cells |->
        LET inches == (raw[c] * 100) \div MM_PER_INCH
        IN  IF inches >= MRMS_MISSING_VALUE \div 2 THEN NaN
            ELSE IF inches < 0 THEN NaN
            ELSE inches]

\* decode_grib2 from the values read to the grid returned: missing values
\* to NaN, negative values to NaN, millimetres to inches
decode_values(raw) ==
    [c \in Cells |->
        IF raw[c] >= MRMS_MISSING_VALUE \div 2 THEN NaN
        ELSE IF raw[c] < 0 THEN NaN
        ELSE (raw[c] * 100) \div MM_PER_INCH]

\* ---- processing/polygonize.py -------------------------------------------
data_filled(data) == [c \in Cells |-> IF data[c] = NaN THEN 0 ELSE data[c]]

\* gaussian_filter (mode reflect), with the kernel truncated to (1 2 1)/4
gaussian_filter(g) ==
    [c \in Cells |->
        LET l == IF c = 1 THEN g[c] ELSE g[c - 1]
            r == IF c = GridCells THEN g[c] ELSE g[c + 1]
        IN  (l + 2 * g[c] + r) \div 4]

\* variant: missing cells are not taken out of the mask
MaskOfSmoothed(smoothed, data, threshold) ==
    {c \in Cells : smoothed[c] >= threshold}

Mask(smoothed, data, threshold) ==
    {c \in Cells : smoothed[c] >= threshold /\ data[c] # NaN}

\* shapes(): one geometry per maximal connected region of the mask
RegionOf(mask, c) ==
    {d \in mask : \A e \in (IF c < d THEN c ELSE d)..(IF c < d THEN d ELSE c) : e \in mask}

RECURSIVE RegionSeq(_, _)
RegionSeq(mask, todo) ==
    IF todo = {} THEN <<>>
    ELSE LET r == RegionOf(mask, SetMin(todo))
         IN  <<r>> \o RegionSeq(mask, todo \ r)

BboxCells(bbox) == IF bbox = NoBbox THEN Cells ELSE {c \in Cells : bbox[1] <= c /\ c <= bbox[2]}

RECURSIVE FeaturesOf(_, _, _, _)
FeaturesOf(regions, threshold, props, bbox) ==
    IF regions = <<>> THEN <<>>
    ELSE LET geom == Head(regions)
             rest == FeaturesOf(Tail(regions), threshold, props, bbox)
             clipped == geom \cap BboxCells(bbox)
         IN  IF Cardinality(geom) * CellArea < min_area_deg2 THEN rest
             ELSE IF bbox # NoBbox /\ clipped = {} THEN rest
             ELSE <<[geometry |-> clipped,
                     threshold |-> threshold,
                     product |-> props.product,
                     start_time |-> props.start_time,
                     end_time |-> props.end_time,
                     source_files |-> props.source_files,
                     created_at |-> props.created_at]>> \o rest

_polygonize_threshold(smoothed, data, threshold, props, bbox) ==
    LET mask == Mask(smoothed, data, threshold)
    IN  IF mask = {} THEN <<>>
        ELSE FeaturesOf(RegionSeq(mask, mask), threshold, props, bbox)

\* variant: the creation time is read again for every threshold
RECURSIVE PolygonizeAllStamping(_, _, _, _, _)
PolygonizeAllStamping(smoothed, data, ts, props, bbox) ==
    IF ts = <<>> THEN <<>>
    ELSE _polygonize_threshold(smoothed, data, Head(ts),
                               [props EXCEPT !.created_at = @ + Len(ts)], bbox)
            \o PolygonizeAllStamping(smoothed, data, Tail(ts), props, bbox)

\* variant: the loop over the thresholds ends at the first empty mask
RECURSIVE PolygonizeAllStopping(_, _, _, _, _)
PolygonizeAllStopping(smoothed, data, ts, props, bbox) ==
    IF ts = <<>> THEN <<>>
    ELSE IF Mask(smoothed, data, Head(ts)) = {} THEN <<>>
    ELSE _polygonize_threshold(smoothed, data, Head(ts), props, bbox)
            \o PolygonizeAllStopping(smoothed, data, Tail(ts), props, bbox)

RECURSIVE PolygonizeAll(_, _, _, _, _)
PolygonizeAll(smoothed, data, ts, props, bbox) ==
    IF ts = <<>> THEN <<>>
    ELSE _polygonize_threshold(smoothed, data, Head(ts), props, bbox)
            \o PolygonizeAll(smoothed, data, Tail(ts), props, bbox)

FeatureCollection(features) == [type |-> "FeatureCollection", features |-> features]

\* variant: np.maximum, which returns NaN when either operand is NaN
maximum(a, b) == IF a = NaN \/ b = NaN THEN NaN ELSE IF a >= b THEN a ELSE b

\* np.fmax: the larger operand, the other one when one is NaN
fmax(a, b) == IF a = NaN THEN b ELSE IF b = NaN THEN a ELSE IF a >= b THEN a ELSE b

\* for arr in arrays[1:]: np.fmax(result, arr, out=result)
RECURSIVE FmaxInto(_, _)
FmaxInto(result, arrays) ==
    IF arrays = <<>> THEN result
    ELSE FmaxInto([c \in Cells |-> fmax(result[c], Head(arrays)[c])], Tail(arrays))

composite_max(arrays) == FmaxInto(arrays[1], Tail(arrays))

grid_to_swaths(data, thresholds, props, bbox) ==
    FeatureCollection(
        PolygonizeAll(gaussian_filter(data_filled(data)), data,
                      SortedReverse(thresholds), props, bbox))

\* ---- processing/polygonize.py on a square grid ----------------------------
\* The same extraction on a grid of ScenarioSize rows and columns, data[r][c],
\* with the Gaussian kernel of sigma = gaussian_sigma that gaussian_filter
\* builds: radius 4 * sigma, weights exp(-k^2 / (2 sigma^2)), here in
\* hundredths and left unnormalised, so that a smoothed value is kept as
\* its multiple of KernelSum * KernelSum.
Side == 1..ScenarioSize
KernelRadius == 4 * gaussian_sigma
KernelWeights == <<100, 95, 80, 61, 41, 25, 14, 7, 3, 1, 0, 0, 0>>
Weight(k) == KernelWeights[(IF k < 0 THEN -k ELSE k) + 1]

RECURSIVE WeightSum(_)
WeightSum(k) == IF k > KernelRadius THEN 0 ELSE Weight(k) + WeightSum(k + 1)

KernelSum == WeightSum(-KernelRadius)

\* mode "reflect": the grid is mirrored at its edges, (b a | a b c | c b)
Reflect(i) ==
    LET j == (i - 1) % (2 * ScenarioSize)
    IN  IF j < ScenarioSize THEN j + 1 ELSE 2 * ScenarioSize - j

\* one pass of the kernel along the rows, and one along the columns
RECURSIVE AlongRows(_, _, _, _)
AlongRows(g, r, c, k) ==
    IF k > KernelRadius THEN 0
    ELSE Weight(k) * g[Reflect(r + k)][c] + AlongRows(g, r, c, k + 1)

RECURSIVE AlongColumns(_, _, _, _)
AlongColumns(g, r, c, k) ==
    IF k > KernelRadius THEN 0
    ELSE Weight(k) * g[r][Reflect(c + k)] + AlongColumns(g, r, c, k + 1)

data_filled_2d(data) ==
    [r \in Side |-> [c \in Side |-> IF data[r][c] = NaN THEN 0 ELSE data[r][c]]]

gaussian_filter_2d(g) ==
    LET rows == [r \in Side |-> [c \in Side |-> AlongRows(g, r, c, -KernelRadius)]]
    IN  [r \in Side |-> [c \in Side |-> AlongColumns(rows, r, c, -KernelRadius)]]

Mask2d(smoothed, data, threshold) ==
    {x \in Side \X Side : /\ smoothed[x[1]][x[2]] >= threshold * KernelSum * KernelSum
                           /\ data[x[1]][x[2]] # NaN}

\* variant: connectivity of 8, the cells sharing an edge or a corner with x
Adjacent8(x) ==
    {<<x[1] + dr, x[2] + dc>> : dr \in {-1, 0, 1}, dc \in {-1, 0, 1}} \ {x}

\* shapes() with its connectivity of 4: the cells sharing an edge with x
Adjacent(x) ==
    {<<x[1] - 1, x[2]>>, <<x[1] + 1, x[2]>>, <<x[1], x[2] - 1>>, <<x[1], x[2] + 1>>}

RECURSIVE Grow(_, _)
Grow(mask, region) ==
    LET more == {x \in mask \ region : Adjacent(x) \cap region # {}}
    IN  IF more = {} THEN region ELSE Grow(mask, region \cup more)

RECURSIVE Regions2d(_)
Regions2d(mask) ==
    IF mask = {} THEN {}
    ELSE LET r == Grow(mask, {CHOOSE x \in mask : TRUE})
         IN  {r} \cup Regions2d(mask \ r)

\* _polygonize_threshold up to its area filter: the geometries shapes()
\* yields for the mask, each as the cells of its region
_polygonize_threshold_2d(smoothed, data, threshold) ==
    Regions2d(Mask2d(smoothed, data, threshold))

\* the polygons of each threshold, each as the cells of its region
grid_to_swaths_2d(data, thresholds) ==
    LET smoothed == gaussian_filter_2d(data_filled_2d(data))
    IN  [t \in thresholds |->
            {r \in _polygonize_threshold_2d(smoothed, data, t) :
                Cardinality(r) * CellArea >= min_area_deg2}]

\* ---- db/repository.py ---------------------------------------------------
\* variant: no uniqueness constraint on the table
ConflictsNever(r, row) == FALSE

\* UNIQUE (valid_date, threshold) / ON CONFLICT (valid_date, threshold)
Conflicts(r, row) == r.valid_date = row.valid_date /\ r.threshold = row.threshold

HasConflict(rows, row) == \E i \in 1..Len(rows) : Conflicts(rows[i], row)

swaths_exist(rows, valid_date) == \E i \in 1..Len(rows) : rows[i].valid_date = valid_date

\* by_threshold: the distinct thresholds in order of first appearance
RECURSIVE GroupKeys(_, _)
GroupKeys(features, seen) ==
    IF features = <<>> THEN <<>>
    ELSE IF Head(features).threshold \in seen THEN GroupKeys(Tail(features), seen)
    ELSE <<Head(features).threshold>>
            \o GroupKeys(Tail(features), seen \cup {Head(features).threshold})

by_threshold(features) == GroupKeys(features, {})

\* variant: every row stores the whole feature list, not its threshold group
InsertRowsUngrouped(features, valid_date) ==
    LET ts == by_threshold(features)
        sample == features[1]
    IN  [i \in 1..Len(ts) |->
            [features |-> features,
             threshold |-> ts[i],
             product |-> sample.product,
             valid_date |-> valid_date,
             start_time |-> sample.start_time,
             end_time |-> sample.end_time,
             source_files |-> sample.source_files]]

\* the rows insert_swaths executes, one INSERT per threshold group
InsertRows(features, valid_date) ==
    LET ts == by_threshold(features)
        sample == features[1]
    IN  [i \in 1..Len(ts) |->
            [features |-> SelectSeq(features, LAMBDA f : f.threshold = ts[i]),
             threshold |-> ts[i],
             product |-> sample.product,
             valid_date |-> valid_date,
             start_time |-> sample.start_time,
             end_time |-> sample.end_time,
             source_files |-> sample.source_files]]

\* the value insert_swaths returns after its commit
InsertReturn(features, actually_inserted) == Len(by_threshold(features))

\* WHERE valid_date = .. [AND threshold IN (..)] ORDER BY threshold DESC
RECURSIVE OrderDesc(_)
OrderDesc(rows) ==
    IF rows = <<>> THEN <<>>
    ELSE LET m == SetMax({rows[i].threshold : i \in 1..Len(rows)})
             k == CHOOSE i \in 1..Len(rows) :
                    rows[i].threshold = m /\ \A j \in 1..(i - 1) : rows[j].threshold # m
         IN  <<rows[k]>> \o OrderDesc(SubSeq(rows, 1, k - 1) \o SubSeq(rows, k + 1, Len(rows)))

\* variant: features outside the bbox are dropped, the others left uncut
RECURSIVE _filter_features_to_bbox(_, _)
_filter_features_to_bbox(features, bbox) ==
    IF features = <<>> THEN <<>>
    ELSE LET f == Head(features)
             clipped == f.geometry \cap BboxCells(bbox)
             rest == _filter_features_to_bbox(Tail(features), bbox)
         IN  IF clipped = {} THEN rest
             ELSE <<f>> \o rest

RECURSIVE _clip_features_to_bbox(_, _)
_clip_features_to_bbox(features, bbox) ==
    IF features = <<>> THEN <<>>
    ELSE LET f == Head(features)
             clipped == f.geometry \cap BboxCells(bbox)
             rest == _clip_features_to_bbox(Tail(features), bbox)
         IN  IF clipped = {} THEN rest
             ELSE <<[f EXCEPT !.geometry = clipped]>> \o rest

RowFeatures(rows) == [i \in 1..Len(rows) |-> rows[i].features]

\* variant: the threshold list is not part of the WHERE clause
get_swaths_any_threshold(rows, valid_date, thresholds, bbox) ==
    LET selected == SelectSeq(rows, LAMBDA r : r.valid_date = valid_date)
        all_features == Flatten(RowFeatures(OrderDesc(selected)))
    IN  FeatureCollection(IF bbox # NoBbox THEN _clip_features_to_bbox(all_features, bbox)
                          ELSE all_features)

get_swaths(rows, valid_date, thresholds, bbox) ==
    LET selected == SelectSeq(rows, LAMBDA r :
                        /\ r.valid_date = valid_date
                        /\ (thresholds # <<>> => r.threshold \in SeqToSet(thresholds)))
        all_features == Flatten(RowFeatures(OrderDesc(selected)))
    IN  FeatureCollection(IF bbox # NoBbox THEN _clip_features_to_bbox(all_features, bbox)
                          ELSE all_features)

\* ---- pipeline/transformer.py --------------------------------------------
_empty_feature_collection == FeatureCollection(<<>>)

\* call: the function call under examination in SpecFn; batch: the state of
\* one Ingester.run in SpecIngest; both stay as they are in Spec
VARIABLES bucket, store, pending, files, lastResult, proc, call, batch

vars == <<bucket, store, pending, files, lastResult, proc, call, batch>>

NoCall == [fn |-> "none"]
NoBatch == [pc |-> "none"]
NoResult == [type |-> "None", features |-> <<>>]
NoArgs == [thresholds |-> <<>>, bbox |-> <<-1>>]
Steps == <<"list", "fetch", "decode", "extract", "insert", "unlink">>

IdleProc ==
    [pc |-> "idle", kind |-> "none", date |-> 0, start |-> 0, end |-> 0,
     thresholds |-> <<>>, bbox |-> NoBbox, keys |-> <<>>, local_path |-> -1,
     data |-> <<>>, fc |-> <<>>, todo |-> <<>>, inserted |-> -1,
     result |-> NoResult, outcome |-> "none", failed |-> "none", calls |-> <<>>,
     xargs |-> NoArgs, prev |-> NoResult, hit |-> FALSE, listing |-> "none",
     opened |-> 0, closed |-> 0]

\* the requests the API is driven with: the window of one key, and read
\* filters that differ from the arguments of the extraction
ApiWindows == {<<t, t>> : t \in Slots}
ApiFilters == {[thresholds |-> <<75>>, bbox |-> <<1, 1>>]}

Init ==
    /\ bucket \in Buckets
    /\ store = <<>>
    /\ pending = [w \in Runs |-> <<>>]
    /\ files = {}
    /\ lastResult = [d \in Dates |-> NoResult]
    /\ proc = [w \in Runs |-> IdleProc]
    /\ call = NoCall
    /\ batch = NoBatch

\* ---- run bookkeeping ----------------------------------------------------
Called(p, step) == \E i \in 1..Len(p.calls) : p.calls[i] = step

\* variant: conn.close() is the last statement of the try block, not a
\* finally clause
FinishWithoutFinally(p, outcome, result, failed) ==
    [IdleProc EXCEPT !.pc = "done", !.kind = p.kind, !.date = p.date,
                     !.outcome = outcome, !.result = result, !.failed = failed,
                     !.calls = p.calls, !.xargs = p.xargs, !.prev = p.prev,
                     !.hit = p.hit, !.listing = p.listing,
                     !.opened = p.opened,
                     !.closed = IF p.opened > 0 /\ outcome = "returned"
                                THEN p.closed + 1 ELSE p.closed]

\* the end of a run: its locals are gone, its result and its call log stay;
\* a run that got its connection leaves through finally: conn.close()
Finish(p, outcome, result, failed) ==
    [IdleProc EXCEPT !.pc = "done", !.kind = p.kind, !.date = p.date,
                     !.outcome = outcome, !.result = result, !.failed = failed,
                     !.calls = p.calls, !.xargs = p.xargs, !.prev = p.prev,
                     !.hit = p.hit, !.listing = p.listing,
                     !.opened = p.opened,
                     !.closed = IF p.opened > 0 THEN p.closed + 1 ELSE p.closed]

\* variant: the failure is re-raised to the caller of run()
SoftFailRaises(p, cause) == Finish(p, "raised", NoResult, cause)

\* variant: the early return is missing and the run goes on to the insert
SoftFailFallsThrough(p, cause) == [p EXCEPT !.pc = "insert", !.failed = cause]

\* Transformer.run turns an empty listing, a failed fetch and a failed decode
\* into the empty collection; _build_swaths raises HTTPException instead
SoftFail(p, cause) ==
    IF p.kind = "transformer"
    THEN Finish(p, "returned", _empty_feature_collection, cause)
    ELSE Finish(p, "raised", NoResult, cause)

\* an exception leaves through the finally clause: conn.close()
HardFail(p, cause) == Finish(p, "raised", NoResult, cause)

\* a run that met no transient failure of its environment: its listing, if
\* it made one, lost no key, and none of its calls raised
Undisturbed(p) == p.listing \in {"none", "complete"} /\ p.failed \in {"none", "nokeys"}

\* lastResult[d]: what the last undisturbed Transformer.run(d) returned
Become(w, p) ==
    /\ proc' = [proc EXCEPT ![w] = p]
    /\ lastResult' = IF /\ p.pc = "done" /\ p.kind = "transformer"
                        /\ p.outcome = "returned" /\ Undisturbed(p)
                     THEN [lastResult EXCEPT ![p.date] = p.result]
                     ELSE lastResult

\* variant: the request's threshold list is passed to the extraction
ExtractThresholdsOfRequest(p) ==
    IF p.kind = "transformer" THEN DEFAULT_THRESHOLDS ELSE p.thresholds

\* the arguments of the extraction whose output goes to the store
ExtractThresholds(p) == IF p.kind = "transformer" THEN DEFAULT_THRESHOLDS ELSE THRESHOLDS_INCHES
ExtractBbox(p) == NoBbox

\* the filters of the final read
ReadThresholds(p) == IF p.kind = "transformer" THEN <<>> ELSE p.thresholds
ReadBbox(p) == IF p.kind = "transformer" THEN NoBbox ELSE p.bbox

\* ---- Transformer.run / _build_swaths, step by step ------------------------
\* a date string is the day it names, or InvalidDate for a string that
\* strptime("%Y-%m-%d") rejects
InvalidDate == -1
DateStrings == Dates \cup {InvalidDate}

_parse_date(date_str) == IF date_str = InvalidDate THEN None ELSE <<date_str>>

\* variant: the date string is not parsed before the store is asked
StartTransformerUnvalidated(w) ==
    /\ proc[w].pc = "idle"
    /\ \A u \in Runs : u < w => proc[u].pc # "idle"
    /\ \E date_str \in DateStrings :
          Become(w, [IdleProc EXCEPT !.pc = "check", !.kind = "transformer",
                                     !.date = date_str, !.opened = 1,
                                     !.start = start_of_day(date_str),
                                     !.end = end_of_day(date_str)])
    /\ UNCHANGED <<call, batch, bucket, store, pending, files>>

\* Transformer.run(date_str) up to get_connection(): _parse_date raises
\* ValueError for an invalid string, and the run is over
\* (run w begins once the runs numbered before it have begun)
StartTransformer(w) ==
    /\ proc[w].pc = "idle"
    /\ \A u \in Runs : u < w => proc[u].pc # "idle"
    /\ \E date_str \in DateStrings :
          LET valid_date == _parse_date(date_str) IN
          IF valid_date = None
          THEN Become(w, Finish([IdleProc EXCEPT !.kind = "transformer", !.date = date_str],
                                "raised", NoResult, "date"))
          ELSE LET d == valid_date[1] IN
               Become(w, [IdleProc EXCEPT !.pc = "check", !.kind = "transformer", !.date = d,
                                          !.opened = 1,
                                          !.start = start_of_day(d), !.end = end_of_day(d),
                                          !.prev = lastResult[d]])
    /\ UNCHANGED <<call, batch, bucket, store, pending, files>>

StartApi(w) ==
    /\ proc[w].pc = "idle"
    /\ \A u \in Runs : u < w => proc[u].pc # "idle"
    /\ \E win \in ApiWindows, flt \in ApiFilters :
          Become(w, [IdleProc EXCEPT !.pc = "check", !.kind = "api", !.date = DateOf(win[1]),
                                     !.opened = 1,
                                     !.start = win[1], !.end = win[2],
                                     !.thresholds = flt.thresholds, !.bbox = flt.bbox])
    /\ UNCHANGED <<call, batch, bucket, store, pending, files>>

\* variant: the store hit does not return and the pipeline starts anyway
CheckStoreFallsThrough(w) ==
    LET p == proc[w] IN
    /\ p.pc = "check"
    /\ Become(w, [p EXCEPT !.pc = "list", !.hit = swaths_exist(store \o pending[w], p.date)])
    /\ UNCHANGED <<call, batch, bucket, store, pending, files>>

CheckStore(w) ==
    LET p == proc[w] IN
    /\ p.pc = "check"
    /\ IF swaths_exist(store \o pending[w], p.date)
       THEN Become(w, [p EXCEPT !.pc = "hit", !.hit = TRUE])
       ELSE Become(w, [p EXCEPT !.pc = "list"])
    /\ UNCHANGED <<call, batch, bucket, store, pending, files>>

ReadHit(w) ==
    LET p == proc[w] IN
    /\ p.pc = "hit"
    /\ Become(w, Finish(p, "returned",
                        get_swaths(store \o pending[w], p.date, ReadThresholds(p), ReadBbox(p)),
                        "none"))
    /\ UNCHANGED <<call, batch, bucket, store, pending, files>>

ListStep(w) ==
    LET p == proc[w] IN
    /\ p.pc = "list"
    /\ \E thrown \in SUBSET (DateOf(p.start)..DateOf(p.end)) :
          LET keys == list_files(bucket, p.start, p.end, thrown)
              q == [p EXCEPT !.calls = Append(@, "list"),
                             !.listing = IF thrown = DateOf(p.start)..DateOf(p.end)
                                         THEN "allthrew"
                                         ELSE IF keys = list_files(bucket, p.start, p.end, {})
                                         THEN "complete" ELSE "partial"]
          IN  IF keys = Raise THEN Become(w, HardFail(q, "list"))
              ELSE IF Len(keys) = 0 THEN Become(w, SoftFail(q, "nokeys"))
              ELSE Become(w, [q EXCEPT !.pc = "fetch", !.keys = keys])
    /\ UNCHANGED <<call, batch, bucket, store, pending, files>>

\* fetch_file(keys[-1]): a cache hit, a download, or a download that raises
FetchStep(w) ==
    LET p == proc[w]
        last_key == Last(p.keys)
        q == [p EXCEPT !.calls = Append(@, "fetch")]
    IN
    /\ p.pc = "fetch"
    /\ IF last_key \in files
       THEN /\ Become(w, [q EXCEPT !.pc = "decode", !.local_path = last_key, !.keys = <<>>])
            /\ files' = files
       ELSE \E ok \in BOOLEAN :
              IF ok
              THEN /\ Become(w, [q EXCEPT !.pc = "decode", !.local_path = last_key, !.keys = <<>>])
                   /\ files' = files \cup {last_key}
              ELSE /\ Become(w, SoftFail(q, "fetch"))
                   /\ files' = files
    /\ UNCHANGED <<call, batch, bucket, store, pending>>

\* variant: a file that does not decode is deleted before the early return
DecodeStepDeleting(w) ==
    LET p == proc[w]
        q == [p EXCEPT !.calls = Append(@, "decode")]
    IN
    /\ p.pc = "decode"
    /\ \E ok \in BOOLEAN :
          IF ok /\ p.local_path \in files
          THEN /\ Become(w, [q EXCEPT !.pc = "extract", !.data = bucket[p.local_path]])
               /\ files' = files
          ELSE /\ Become(w, SoftFail(q, "decode"))
               /\ files' = files \ {p.local_path}
    /\ UNCHANGED <<call, batch, bucket, store, pending>>

\* decode_grib2(local_path): raises when the file is gone or unreadable
DecodeStep(w) ==
    LET p == proc[w]
        q == [p EXCEPT !.calls = Append(@, "decode")]
    IN
    /\ p.pc = "decode"
    /\ \E ok \in BOOLEAN :
          IF ok /\ p.local_path \in files
          THEN Become(w, [q EXCEPT !.pc = "extract", !.data = bucket[p.local_path]])
          ELSE Become(w, SoftFail(q, "decode"))
    /\ UNCHANGED <<call, batch, bucket, store, pending, files>>

ExtractStep(w) ==
    LET p == proc[w]
        props == [product |-> "MESH_Max_1440min", start_time |-> p.start, end_time |-> p.end,
                  source_files |-> <<p.local_path>>, created_at |-> w]
        fc == grid_to_swaths(p.data, ExtractThresholds(p), props, ExtractBbox(p))
    IN
    /\ p.pc = "extract"
    /\ Become(w, [p EXCEPT !.pc = "insert", !.fc = fc.features,
                           !.calls = Append(@, "extract"),
                           !.xargs = [thresholds |-> ExtractThresholds(p),
                                      bbox |-> ExtractBbox(p)]])
    /\ UNCHANGED <<call, batch, bucket, store, pending, files>>

\* insert_swaths up to its first INSERT: no feature, nothing inserted, 0
InsertBegin(w) ==
    LET p == proc[w]
        q == [p EXCEPT !.calls = Append(@, "insert")]
    IN
    /\ p.pc = "insert"
    /\ IF p.fc = <<>>
       THEN Become(w, [q EXCEPT !.pc = "cleanup", !.inserted = 0])
       ELSE Become(w, [q EXCEPT !.pc = "execute", !.todo = InsertRows(p.fc, p.date)])
    /\ UNCHANGED <<call, batch, bucket, store, pending, files>>

\* variant: the connection is in autocommit mode and each INSERT is on its own
InsertRowAutocommit(w) ==
    LET p == proc[w]
        row == Head(p.todo)
    IN
    /\ p.pc = "execute"
    /\ p.todo # <<>>
    /\ store' = IF HasConflict(store, row) THEN store ELSE Append(store, row)
    /\ Become(w, [p EXCEPT !.todo = Tail(@)])
    /\ UNCHANGED <<call, batch, bucket, pending, files>>

\* one INSERT .. ON CONFLICT DO NOTHING; it waits while another open
\* transaction holds an uncommitted row with the same key
InsertRow(w) ==
    LET p == proc[w]
        row == Head(p.todo)
    IN
    /\ p.pc = "execute"
    /\ p.todo # <<>>
    /\ \A u \in Runs \ {w} : ~HasConflict(pending[u], row)
    /\ pending' = IF HasConflict(store \o pending[w], row) THEN pending
                  ELSE [pending EXCEPT ![w] = Append(@, row)]
    /\ Become(w, [p EXCEPT !.todo = Tail(@)])
    /\ UNCHANGED <<call, batch, bucket, store, files>>

\* a database error during the inserts: the exception leaves run(), the
\* connection is closed and the open transaction is rolled back
InsertFail(w) ==
    LET p == proc[w] IN
    /\ p.pc = "execute"
    /\ pending' = [pending EXCEPT ![w] = <<>>]
    /\ Become(w, HardFail(p, "insert"))
    /\ UNCHANGED <<call, batch, bucket, store, files>>

\* conn.commit() and the return value of insert_swaths
Commit(w) ==
    LET p == proc[w] IN
    /\ p.pc = "execute"
    /\ p.todo = <<>>
    /\ store' = store \o pending[w]
    /\ pending' = [pending EXCEPT ![w] = <<>>]
    /\ Become(w, [p EXCEPT !.pc = "cleanup",
                           !.inserted = InsertReturn(p.fc, Len(pending[w]))])
    /\ UNCHANGED <<call, batch, bucket, files>>

\* if local_path.exists():
Cleanup(w) ==
    LET p == proc[w] IN
    /\ p.pc = "cleanup"
    /\ Become(w, [p EXCEPT !.pc = IF p.local_path \in files THEN "unlink" ELSE "read"])
    /\ UNCHANGED <<call, batch, bucket, store, pending, files>>

\*     local_path.unlink()
Unlink(w) ==
    LET p == proc[w] IN
    /\ p.pc = "unlink"
    /\ IF p.local_path \in files
       THEN /\ files' = files \ {p.local_path}
            /\ Become(w, [p EXCEPT !.pc = "read", !.calls = Append(@, "unlink")])
       ELSE /\ files' = files
            /\ Become(w, HardFail(p, "unlink"))
    /\ UNCHANGED <<call, batch, bucket, store, pending>>

\* the process of a Transformer.run dies after the commit of its insert and
\* before its file is deleted: nothing of the run is left but the store and
\* the cache
Crash(w) ==
    LET p == proc[w] IN
    /\ p.pc = "cleanup" /\ p.kind = "transformer"
    /\ p.local_path \in files
    /\ Become(w, [Finish(p, "crashed", NoResult, "crash") EXCEPT !.closed = p.closed])
    /\ UNCHANGED <<call, batch, bucket, store, pending, files>>

ReadBack(w) ==
    LET p == proc[w] IN
    /\ p.pc = "read"
    /\ Become(w, Finish(p, "returned",
                        get_swaths(store \o pending[w], p.date, ReadThresholds(p), ReadBbox(p)),
                        "none"))
    /\ UNCHANGED <<call, batch, bucket, store, pending, files>>

Next ==
    \E w \in Runs :
        \/ StartTransformer(w)
        \/ StartApi(w)
        \/ CheckStore(w)
        \/ ReadHit(w)
        \/ ListStep(w)
        \/ FetchStep(w)
        \/ DecodeStep(w)
        \/ ExtractStep(w)
        \/ InsertBegin(w)
        \/ InsertRow(w)
        \/ InsertFail(w)
        \/ Commit(w)
        \/ Cleanup(w)
        \/ Unlink(w)
        \/ Crash(w)
        \/ ReadBack(w)

Spec == Init /\ [][Next]_vars

\* ---- type invariant -----------------------------------------------------
TypeOK ==
    /\ files \subseteq Slots
    /\ \A w \in Runs : proc[w].pc \in {"idle", "check", "hit", "list", "fetch", "decode",
                                          "extract", "insert", "execute", "cleanup",
                                          "unlink", "read", "done"}

\* ---- scripts/ingester.py: Ingester.run -------------------------------------
\* A day's Transformer.run is taken by its outcome alone: it returns a
\* collection or it raises (Spec shows both happen).  batch.fut[i] is the
\* state of the future of days[i], batch.calls[d] counts the invocations of
\* Transformer.run(d), batch.seen holds the futures as_completed has yielded.
Days == 0..MaxDay

\* variant: the end date is left out of the range
RECURSIVE _date_range_exclusive(_, _)
_date_range_exclusive(start, end) ==
    IF start >= end THEN <<>> ELSE <<start>> \o _date_range_exclusive(start + 1, end)

RECURSIVE _date_range(_, _)
_date_range(start, end) ==
    IF start > end THEN <<>> ELSE <<start>> \o _date_range(start + 1, end)

Running(b) == {i \in 1..Len(b.days) : b.fut[i] = "running"}
Queued(b) == {i \in 1..Len(b.days) : b.fut[i] = "queued"}
Finished(b) == {i \in 1..Len(b.days) : b.fut[i] \in {"returned", "raised"}}

InitIngest ==
    /\ bucket = [t \in Slots |-> Absent]
    /\ store = <<>>
    /\ pending = [w \in Runs |-> <<>>]
    /\ files = {}
    /\ lastResult = [d \in Dates |-> NoResult]
    /\ proc = [w \in Runs |-> IdleProc]
    /\ call = NoCall
    /\ \E start_date \in Days, end_date \in Days, workers \in 1..MaxPool :
          batch = [pc |-> "called", start_date |-> start_date, end_date |-> end_date,
                   workers |-> workers, days |-> <<>>, total |-> 0, fut |-> <<>>,
                   calls |-> [d \in Days |-> 0], seen |-> {},
                   completed |-> 0, failed |-> 0, summary |-> <<>>]

\* the argument check, _date_range, and the submission of every day
Submit ==
    /\ batch.pc = "called"
    /\ IF batch.start_date > batch.end_date
       THEN batch' = [batch EXCEPT !.pc = "raised"]
       ELSE LET days == _date_range(batch.start_date, batch.end_date)
            IN  batch' = [batch EXCEPT !.pc = "pool", !.days = days, !.total = Len(days),
                                       !.fut = [i \in 1..Len(days) |-> "queued"]]
    /\ UNCHANGED <<call, bucket, store, pending, files, lastResult, proc>>

\* an idle thread of the pool takes the oldest queued day and calls
\* transformer.run(day)
WorkerTake(i) ==
    /\ batch.pc = "pool"
    /\ i \in Queued(batch)
    /\ \A j \in Queued(batch) : i <= j
    /\ Cardinality(Running(batch)) < batch.workers
    /\ batch' = [batch EXCEPT !.fut[i] = "running", !.calls[batch.days[i]] = @ + 1]
    /\ UNCHANGED <<call, bucket, store, pending, files, lastResult, proc>>

\* the day's run ends: it returns or it raises, and the future holds that
WorkerDone(i) ==
    /\ batch.pc = "pool"
    /\ i \in Running(batch)
    /\ \E outcome \in {"returned", "raised"} : batch' = [batch EXCEPT !.fut[i] = outcome]
    /\ UNCHANGED <<call, bucket, store, pending, files, lastResult, proc>>

\* variant: the exception of future.result() is not caught
CollectRaises(i) ==
    /\ batch.pc = "pool"
    /\ i \in Finished(batch) \ batch.seen
    /\ IF batch.fut[i] = "returned"
       THEN batch' = [batch EXCEPT !.seen = @ \cup {i}, !.completed = @ + 1]
       ELSE batch' = [batch EXCEPT !.pc = "raised"]
    /\ UNCHANGED <<call, bucket, store, pending, files, lastResult, proc>>

\* as_completed yields a finished future; future.result() returns or raises
Collect(i) ==
    /\ batch.pc = "pool"
    /\ i \in Finished(batch) \ batch.seen
    /\ IF batch.fut[i] = "returned"
       THEN batch' = [batch EXCEPT !.seen = @ \cup {i}, !.completed = @ + 1]
       ELSE batch' = [batch EXCEPT !.seen = @ \cup {i}, !.failed = @ + 1]
    /\ UNCHANGED <<call, bucket, store, pending, files, lastResult, proc>>

\* every future was yielded: the pool is shut down and the summary returned
Summarize ==
    /\ batch.pc = "pool"
    /\ batch.seen = 1..Len(batch.days)
    /\ batch' = [batch EXCEPT !.pc = "returned",
                               !.summary = [total |-> batch.total,
                                            completed |-> batch.completed,
                                            failed |-> batch.failed]]
    /\ UNCHANGED <<call, bucket, store, pending, files, lastResult, proc>>

NextIngest ==
    \/ Submit
    \/ \E i \in 1..(MaxDay + 1) : WorkerTake(i) \/ WorkerDone(i) \/ Collect(i)
    \/ Summarize

SpecIngest == InitIngest /\ [][NextIngest]_vars

\* ---- the two entry points together ----------------------------------------
\* The program is entered either by callers of Transformer.run and of the
\* API, or by one Ingester.run.
InitEntry == Init \/ InitIngest

NextEntry ==
    \/ batch = NoBatch /\ Next
    \/ batch # NoBatch /\ NextIngest

SpecEntry == InitEntry /\ [][NextEntry]_vars

\* ---- one call of a function on chosen arguments ---------------------------
\* call.pc runs "called" -> ("inserted" ->) "returned"; the arguments stay in
\* the record next to what the call produced.
FnDates == {0, 1}
FnThresholds == {50, 75}
Intervals == {lo..hi : lo \in Cells, hi \in Cells} \ {{}}
SeqsUpTo(S, n) == UNION {[1..k -> S] : k \in 1..n}

\* a feature as grid_to_swaths builds it for the extraction of a date
Feat(geometry, threshold, valid_date) ==
    [geometry |-> geometry, threshold |-> threshold, product |-> "MESH_Max_1440min",
     start_time |-> start_of_day(valid_date), end_time |-> end_of_day(valid_date),
     source_files |-> <<end_of_day(valid_date)>>, created_at |-> 1]

\* insert_swaths on one connection with nothing else in flight: every INSERT
\* of the call, then the commit
RECURSIVE ExecuteAll(_, _)
ExecuteAll(rows, todo) ==
    IF todo = <<>> THEN rows
    ELSE ExecuteAll(IF HasConflict(rows, Head(todo)) THEN rows ELSE Append(rows, Head(todo)),
                    Tail(todo))

insert_swaths(rows, features, valid_date) ==
    IF features = <<>> THEN rows ELSE ExecuteAll(rows, InsertRows(features, valid_date))

\* the polygon lists handed to insert_swaths
InsertedLists(valid_date) ==
    SeqsUpTo({Feat(g, t, valid_date) : g \in {{1}, Cells}, t \in FnThresholds}, MaxFeatures)

\* the stores insert_swaths is called on: empty, or holding one date's rows
InsertStores ==
    {insert_swaths(<<>>, Q, e) :
        Q \in {<<>>, <<Feat(Cells, 50, 0), Feat(Cells, 75, 0)>>,
                     <<Feat(Cells, 75, 1), Feat(Cells, 50, 1)>>},
        e \in FnDates}

InsertCalls ==
    {[fn |-> "insert_swaths", pc |-> "called", rows0 |-> rows, rows |-> rows,
      features |-> P, valid_date |-> d, thresholds |-> <<>>, bbox |-> NoBbox,
      inserted |-> -1, result |-> NoResult] :
        rows \in InsertStores, P \in UNION {InsertedLists(e) : e \in FnDates}, d \in FnDates}

\* the polygons one stored row may hold: one polygon, or two apart
RowChoices(t, d) ==
    {<<Feat(g, t, d)>> : g \in Intervals} \cup {<<Feat({1}, t, d), Feat({GridCells}, t, d)>>, <<>>}

\* the stores get_swaths is called on: per date and threshold no row or one
\* row, written by one insert_swaths per date
ReadStores ==
    {insert_swaths(insert_swaths(<<>>, a \o b, 0), c \o d, 1) :
        a \in RowChoices(50, 0), b \in RowChoices(75, 0),
        c \in RowChoices(75, 1), d \in RowChoices(50, 1)}

ReadFilters ==
    {[thresholds |-> ts, bbox |-> NoBbox] : ts \in {<<50>>, <<75>>, <<75, 50>>, <<100>>}}
    \cup {[thresholds |-> <<>>, bbox |-> <<SetMin(g), SetMax(g)>>] : g \in Intervals}

ReadCalls ==
    {[fn |-> "get_swaths", pc |-> "inserted", rows0 |-> rows, rows |-> rows,
      features |-> <<>>, valid_date |-> d, thresholds |-> f.thresholds, bbox |-> f.bbox,
      inserted |-> -1, result |-> NoResult] :
        rows \in ReadStores, d \in FnDates, f \in ReadFilters}

\* the grids composited: all missing, one value everywhere, or one cell valued
CompositeGrids ==
    {Grid(v) : v \in GridValues}
    \cup {[c \in Cells |-> IF c = k THEN v ELSE NaN] : k \in Cells, v \in GridValues}

CompositeCalls ==
    {[fn |-> "composite_max", pc |-> "called", arrays |-> arrays, result |-> <<>>] :
        arrays \in SeqsUpTo(CompositeGrids, MaxArrays)}

\* the grids extracted: cells missing, without hail, or with hail, strong
\* enough in places to lift the smoothed value of a neighbour over a threshold
ExtractValues == {NaN, 0, 80, 200}

\* product, start_time, end_time, source_files as the caller passes them, and
\* the creation time the call reads once
ExtractProps ==
    {[product |-> "MESH_Max_1440min", start_time |-> start_of_day(d),
      end_time |-> end_of_day(d), source_files |-> <<end_of_day(d)>>,
      created_at |-> d + 1] : d \in FnDates}

ExtractCalls ==
    {[fn |-> "grid_to_swaths", pc |-> "called", data |-> data, thresholds |-> ts,
      props |-> props, result |-> NoResult] :
        data \in [Cells -> ExtractValues],
        ts \in {<<50, 75>>, <<75, 100, 50>>, <<50, 75, 50>>},
        props \in ExtractProps}

\* Scenario A: 0.50 in everywhere except a block of 2 x 2 cells at 3.00 in,
\* extracted for the thresholds 1.00 in and 3.50 in
ScenarioGrid(r0, c0) ==
    [r \in Side |-> [c \in Side |->
        IF r \in {r0, r0 + 1} /\ c \in {c0, c0 + 1} THEN 300 ELSE 50]]

ScenarioCalls ==
    {[fn |-> "grid_to_swaths_2d", pc |-> "called", block |-> <<r0, c0>>,
      data |-> ScenarioGrid(r0, c0), thresholds |-> {100, 350}, result |-> <<>>] :
        r0 \in 1..(ScenarioSize - 1), c0 \in 1..(ScenarioSize - 1)}

\* the smoothed grids _polygonize_threshold is called on: 1.00 in on any
\* cells of the 3 x 3 corner of the grid and nothing elsewhere, with no cell
\* missing or the middle cell of the corner missing
Patch == (1..3) \X (1..3)

PatchGrid(cells) ==
    [r \in Side |-> [c \in Side |->
        IF <<r, c>> \in cells THEN 100 * KernelSum * KernelSum ELSE 0]]

PatchData(missing) ==
    [r \in Side |-> [c \in Side |-> IF <<r, c>> \in missing THEN NaN ELSE 0]]

PolygonizeCalls ==
    {[fn |-> "_polygonize_threshold", pc |-> "called", cells |-> cells,
      smoothed |-> PatchGrid(cells), data |-> PatchData(missing), threshold |-> 100,
      result |-> {}] :
        cells \in SUBSET Patch, missing \in {{}, {<<2, 2>>}}}

\* the listings list_files is called on: files stamped at midnight or noon of
\* the days 0..MaxDay, each under the folder of its date, and one file in
\* the folder of day 1 whose name ends in no timestamp
ListSlots == 0..(2 * MaxDay + 1)
ListKeys == {Key(DateOf(t), t) : t \in ListSlots} \cup {Key(1, BadStamp)}

ListCalls ==
    {[fn |-> "list_files", pc |-> "called", objects |-> objects, start |-> start,
      end |-> end, thrown |-> thrown, result |-> <<>>] :
        objects \in SUBSET ListKeys, start \in ListSlots, end \in ListSlots,
        thrown \in {{}, {1}}}

\* the values a file may hold: a negative one, none, 12.7 mm, 50.8 mm, the
\* largest value that still counts as a measurement, half the largest
\* magnitude, and the missing value itself
RawValues ==
    {-100, 0, 127, 508, MRMS_MISSING_VALUE \div 2 - 1, MRMS_MISSING_VALUE \div 2,
     MRMS_MISSING_VALUE}

DecodeCalls ==
    {[fn |-> "decode_grib2", pc |-> "called", raw |-> raw, result |-> <<>>] :
        raw \in [Cells -> RawValues]}

\* cache directories holding none, one or both of two files, and fetches of
\* one key while S3 holds one content and later perhaps another
FileNames == {"f1.grib2", "f2.grib2"}
Contents == {"a", "b"}
Caches == UNION {[names -> Contents] : names \in SUBSET FileNames}

FetchCalls ==
    {[fn |-> "fetch_file", pc |-> "called", key |-> [name |-> name, gz |-> gz],
      objects |-> objects, caches |-> <<cache>>, paths |-> <<>>, downloads |-> <<>>] :
        name \in FileNames, gz \in BOOLEAN, objects \in [1..2 -> Contents],
        cache \in Caches}

InitFn ==
    /\ bucket = [t \in Slots |-> Absent]
    /\ store = <<>>
    /\ pending = [w \in Runs |-> <<>>]
    /\ files = {}
    /\ lastResult = [d \in Dates |-> NoResult]
    /\ proc = [w \in Runs |-> IdleProc]
    /\ batch = NoBatch
    /\ \/ call \in InsertCalls
       \/ call \in ReadCalls
       \/ call \in CompositeCalls
       \/ call \in ExtractCalls
       \/ call \in ScenarioCalls
       \/ call \in ListCalls
       \/ call \in DecodeCalls
       \/ call \in FetchCalls
       \/ call \in PolygonizeCalls

\* insert_swaths(conn, fc, valid_date)
CallInsertSwaths ==
    /\ call.fn = "insert_swaths" /\ call.pc = "called"
    /\ call' = [call EXCEPT !.pc = "inserted",
                             !.rows = insert_swaths(call.rows, call.features, call.valid_date),
                             !.inserted = IF call.features = <<>> THEN 0
                                          ELSE InsertReturn(call.features, 0)]
    /\ UNCHANGED <<batch, bucket, store, pending, files, lastResult, proc>>

\* get_swaths(conn, valid_date, thresholds, bbox)
CallGetSwaths ==
    /\ call.fn \in {"insert_swaths", "get_swaths"} /\ call.pc = "inserted"
    /\ call' = [call EXCEPT !.pc = "returned",
                             !.result = get_swaths(call.rows, call.valid_date,
                                                   call.thresholds, call.bbox)]
    /\ UNCHANGED <<batch, bucket, store, pending, files, lastResult, proc>>

\* composite_max(arrays)
CallCompositeMax ==
    /\ call.fn = "composite_max" /\ call.pc = "called"
    /\ call' = [call EXCEPT !.pc = "returned", !.result = composite_max(call.arrays)]
    /\ UNCHANGED <<batch, bucket, store, pending, files, lastResult, proc>>

\* grid_to_swaths(data, transform, thresholds, ...) without a bbox
CallGridToSwaths ==
    /\ call.fn = "grid_to_swaths" /\ call.pc = "called"
    /\ call' = [call EXCEPT !.pc = "returned",
                             !.result = grid_to_swaths(call.data, call.thresholds,
                                                       call.props, NoBbox)]
    /\ UNCHANGED <<batch, bucket, store, pending, files, lastResult, proc>>

\* grid_to_swaths on a square grid, with the default tuning parameters
CallGridToSwaths2d ==
    /\ call.fn = "grid_to_swaths_2d" /\ call.pc = "called"
    /\ call' = [call EXCEPT !.pc = "returned",
                             !.result = grid_to_swaths_2d(call.data, call.thresholds)]
    /\ UNCHANGED <<batch, bucket, store, pending, files, lastResult, proc>>

\* _polygonize_threshold(smoothed, nan_mask, .., threshold, ..) up to its
\* area filter
CallPolygonizeThreshold ==
    /\ call.fn = "_polygonize_threshold" /\ call.pc = "called"
    /\ call' = [call EXCEPT !.pc = "returned",
                             !.result = _polygonize_threshold_2d(call.smoothed, call.data,
                                                                call.threshold)]
    /\ UNCHANGED <<batch, bucket, store, pending, files, lastResult, proc>>

\* list_files(product, start, end)
CallListFiles ==
    /\ call.fn = "list_files" /\ call.pc = "called"
    /\ call' = [call EXCEPT !.pc = "returned",
                             !.result = matching_keys(call.objects, call.start, call.end,
                                                      call.thrown)]
    /\ UNCHANGED <<batch, bucket, store, pending, files, lastResult, proc>>

\* decode_grib2(file_path), from the values of the file on
CallDecodeGrib2 ==
    /\ call.fn = "decode_grib2" /\ call.pc = "called"
    /\ call' = [call EXCEPT !.pc = "returned", !.result = decode_values(call.raw)]
    /\ UNCHANGED <<batch, bucket, store, pending, files, lastResult, proc>>

\* fetch_file(s3_key, cache_dir), the first and then the second time
CallFetchFile ==
    /\ call.fn = "fetch_file" /\ call.pc \in {"called", "fetched", "raised"}
    /\ \E outcome \in {"ok", "download raises", "decompress raises"} :
          LET n == Len(call.paths) + 1
              r == fetch_file(Last(call.caches), call.key, call.objects[n], outcome)
          IN  call' = [call EXCEPT !.pc = IF n = 1
                                          THEN (IF r.path = <<>> THEN "raised" ELSE "fetched")
                                          ELSE IF r.path # <<>> /\ call.pc = "fetched"
                                          THEN "returned" ELSE "ended",
                                   !.caches = Append(@, r.cache),
                                   !.paths = Append(@, r.path),
                                   !.downloads = Append(@, r.downloads)]
    /\ UNCHANGED <<batch, bucket, store, pending, files, lastResult, proc>>

NextFn ==
    \/ CallPolygonizeThreshold
    \/ CallFetchFile
    \/ CallDecodeGrib2
    \/ CallListFiles
    \/ CallGridToSwaths2d
    \/ CallInsertSwaths
    \/ CallGetSwaths
    \/ CallCompositeMax
    \/ CallGridToSwaths

SpecFn == InitFn /\ [][NextFn]_vars

\* ---- background/daily_ingest_job.py ---------------------------------------
\* DailyIngestJob.start() against a UTC clock counted in seconds from the
\* midnight that begins day 0.  The job is the record call: its position
\* in the loop, the clock, and the log of what it did (each reading of the
\* clock at the top of the loop, each time.sleep with its argument, each
\* run_once with its outcome).
INTERVAL_SECONDS == 24 * 60 * 60

UtcDay == 24 * 60 * 60

MaxCycles == 2

\* now.replace(hour=12, minute=0, second=0, microsecond=0)
NoonToday(now) == (now \div UtcDay) * UtcDay + 12 * 60 * 60

\* variant: the wait is never needed
_seconds_until_noon_utc_none(now) == 0

_seconds_until_noon_utc(now) ==
    IF now >= NoonToday(now) THEN 0 ELSE NoonToday(now) - now

\* date.today() - timedelta(days=1), for a process whose time zone is UTC
Yesterday(now) == now \div UtcDay - 1

\* variant: run_once is called outside any try
AfterRunOnceUncaught(outcome) ==
    IF outcome = "returned" THEN "sleep" ELSE "stopped"

\* where start() goes after run_once: "except Exception" catches an
\* Exception, and anything else (KeyboardInterrupt, SystemExit) leaves
\* start()
AfterRunOnce(outcome) ==
    IF outcome \in {"returned", "Exception"} THEN "sleep" ELSE "stopped"

\* the moments the service is started at, how long a run_once takes, and
\* by how much a time.sleep may overshoot its argument
StartTimes == {0, 36000, 43199, 43200, 46800, 86399}
RunSeconds == {1, 3600, 43200}
Oversleep == {0, 1}
Outcomes == {"returned", "Exception", "BaseException"}

RunsOf(log) == {i \in 1..Len(log) : log[i].op = "run_once"}

InitJob ==
    /\ bucket = [t \in Slots |-> Absent]
    /\ store = <<>>
    /\ pending = [w \in Runs |-> <<>>]
    /\ files = {}
    /\ lastResult = [d \in Dates |-> NoResult]
    /\ proc = [w \in Runs |-> IdleProc]
    /\ batch = NoBatch
    /\ \E t \in StartTimes : call = [fn |-> "start", pc |-> "loop", now |-> t, log |-> <<>>]

\* top of the loop: wait_seconds = _seconds_until_noon_utc(), and
\* time.sleep(wait_seconds) when it is positive
JobWaitForNoon ==
    /\ call.pc = "loop" /\ Cardinality(RunsOf(call.log)) < MaxCycles
    /\ LET wait_seconds == _seconds_until_noon_utc(call.now)
           read == Append(call.log, [op |-> "now", at |-> call.now])
       IN  IF wait_seconds > 0
           THEN \E over \in Oversleep :
                  call' = [call EXCEPT !.pc = "run_once",
                                       !.log = Append(read, [op |-> "sleep", at |-> call.now,
                                                             seconds |-> wait_seconds]),
                                       !.now = @ + wait_seconds + over]
           ELSE call' = [call EXCEPT !.pc = "run_once", !.log = read]
    /\ UNCHANGED <<batch, bucket, store, pending, files, lastResult, proc>>

\* self.run_once() inside try / except Exception
JobRunOnce ==
    /\ call.pc = "run_once"
    /\ \E took \in RunSeconds, outcome \in Outcomes :
          call' = [call EXCEPT !.pc = AfterRunOnce(outcome),
                               !.log = Append(@, [op |-> "run_once", at |-> call.now,
                                                  date |-> Yesterday(call.now),
                                                  outcome |-> outcome]),
                               !.now = @ + took]
    /\ UNCHANGED <<batch, bucket, store, pending, files, lastResult, proc>>

\* time.sleep(INTERVAL_SECONDS) at the bottom of the loop
JobSleep ==
    /\ call.pc = "sleep"
    /\ \E over \in Oversleep :
          call' = [call EXCEPT !.pc = "loop",
                               !.log = Append(@, [op |-> "sleep", at |-> call.now,
                                                  seconds |-> INTERVAL_SECONDS]),
                               !.now = @ + INTERVAL_SECONDS + over]
    /\ UNCHANGED <<batch, bucket, store, pending, files, lastResult, proc>>

NextJob ==
    \/ JobWaitForNoon
    \/ JobRunOnce
    \/ JobSleep

SpecJob == InitJob /\ [][NextJob]_vars

\* ---- properties ---------------------------------------------------------
\* the orders a list of n elements can be put in
Reorderings(n) == {p \in [1..n -> 1..n] : \A i, j \in 1..n : p[i] = p[j] => i = j}

\* the cells covered by the polygons of one threshold
Covered(features, threshold) ==
    UNION {features[j].geometry : j \in {i \in 1..Len(features) : features[i].threshold = threshold}}

\* the number of times x occurs in s
CountIn(s, x) == Cardinality({i \in 1..Len(s) : s[i] = x})

\* s and t hold the same elements the same number of times
SameBag(s, t) ==
    /\ Len(s) = Len(t)
    /\ \A x \in SeqToSet(s) \cup SeqToSet(t) : CountIn(s, x) = CountIn(t, x)

IsPrefix(s, t) == Len(s) <= Len(t) /\ \A i \in 1..Len(s) : s[i] = t[i]

RowsOf(rows, d) == SelectSeq(rows, LAMBDA r : r.valid_date = d)

StoredDates == {DateOf(t) : t \in Slots}

AfterInsert == {"cleanup", "unlink", "read"}

\* C1: in every reachable state, under any interleaving of the inserts of
\* the runs, the store holds at most one row for each (valid_date,
\* threshold) pair.
C1_UniqueDateThreshold ==
    \A i \in 1..Len(store), j \in 1..Len(store) :
        (i # j) => ~(/\ store[i].valid_date = store[j].valid_date
                     /\ store[i].threshold = store[j].threshold)

\* two runs have both completed a non-empty insert for the same date
C1_Witness ==
    \E w \in Runs, u \in Runs :
        /\ w # u
        /\ proc[w].pc \in AfterInsert /\ proc[u].pc \in AfterInsert
        /\ proc[w].date = proc[u].date
        /\ proc[w].inserted > 0 /\ proc[u].inserted > 0
        /\ swaths_exist(store, proc[w].date)

\* C2: first writer wins per date: once the store holds a row for date D,
\* every later insert for D leaves the rows stored for D unchanged.
C2_FirstWriterWinsPerDate ==
    [][\A d \in StoredDates :
          swaths_exist(store, d) => RowsOf(store', d) = RowsOf(store, d)]_vars

\* C3: an insert_swaths call whose (date, threshold) groups are all stored
\* already inserts no row, leaves the store unchanged and returns 0.
C3_RepeatInsertReturnsZero ==
    [][\A w \in Runs :
          (/\ proc[w].pc = "execute" /\ proc'[w].pc = "cleanup"
           /\ \A i \in 1..Len(proc[w].fc) :
                 \E j \in 1..Len(store) :
                    /\ store[j].valid_date = proc[w].date
                    /\ store[j].threshold = proc[w].fc[i].threshold)
          => (store' = store /\ proc'[w].inserted = 0)]_vars

\* C4: when exists(date) is true at the check of Transformer.run, the run
\* makes no listing, fetch, decode, extraction or insert call and deletes
\* no file, and it returns the collection read from the store.
C4_StoreHitTouchesNothing ==
    /\ [](\A w \in Runs :
            (proc[w].kind = "transformer" /\ proc[w].hit) =>
                /\ proc[w].calls = <<>>
                /\ proc[w].pc \in {"hit", "done"}
                /\ proc[w].pc = "done" => /\ proc[w].outcome = "returned"
                                          /\ proc[w].result.features # <<>>)
    /\ [][\A w \in Runs :
            (proc[w].kind = "transformer" /\ proc[w].pc = "hit" /\ proc'[w].pc = "done") =>
                /\ proc'[w].result = get_swaths(store, proc[w].date, <<>>, NoBbox)
                /\ files' = files /\ store' = store /\ pending' = pending]_vars

\* a Transformer.run has returned stored features from a store hit
C4_Witness ==
    \E w \in Runs :
        /\ proc[w].kind = "transformer" /\ proc[w].hit /\ proc[w].pc = "done"
        /\ proc[w].result.features # <<>>

\* C5: a second Transformer.run for a date, with the source unchanged,
\* returns what the first returned and makes no listing and no fetch call.
C5_SecondRunIsFree ==
    \A w \in Runs :
        (/\ proc[w].kind = "transformer" /\ proc[w].pc = "done"
         /\ proc[w].prev # NoResult /\ Undisturbed(proc[w]))
        => /\ proc[w].outcome = "returned"
           /\ proc[w].result = proc[w].prev
           /\ ~Called(proc[w], "list")
           /\ ~Called(proc[w], "fetch")

\* C6: on a store miss, an empty listing, a fetch that raises and a decode
\* that raises make Transformer.run return the empty FeatureCollection, and
\* no exception reaches its caller.
C6_FailureYieldsEmptyCollection ==
    \A w \in Runs :
        (/\ proc[w].kind = "transformer" /\ proc[w].pc = "done"
         /\ proc[w].failed \in {"nokeys", "fetch", "decode"})
        => /\ proc[w].outcome = "returned"
           /\ proc[w].result = [type |-> "FeatureCollection", features |-> <<>>]

\* a Transformer.run has ended on a decode failure
C6_Witness ==
    \E w \in Runs :
        /\ proc[w].kind = "transformer" /\ proc[w].pc = "done"
        /\ proc[w].failed = "decode"

C8_ExtractIsCanonical ==
    \A w \in Runs :
        Called(proc[w], "extract") =>
            /\ proc[w].xargs.thresholds =
                  <<50, 75, 100, 125, 150, 175, 200, 225, 250, 275>>
            /\ proc[w].xargs.bbox = <<>>

\* an API request with its own threshold list and region has stored rows
C8_Witness ==
    \E w \in Runs :
        /\ proc[w].kind = "api" /\ proc[w].pc \in AfterInsert
        /\ proc[w].thresholds = <<75>> /\ proc[w].bbox # NoBbox
        /\ proc[w].inserted > 0
        /\ swaths_exist(store, proc[w].date)

\* C9: Transformer.run deletes the local source file only if the date's Day
\* Record is in the store at the moment of the deletion.  (No row is ever
\* removed, so a record absent after the deletion was absent at it.)
C9_DeleteOnlyAfterStore ==
    \A w \in Runs :
        (proc[w].kind = "transformer" /\ Called(proc[w], "unlink"))
        => swaths_exist(store, proc[w].date)

\* C10: on a store miss the steps of one run happen in the order list,
\* fetch, decode, extract, insert, delete, each at most once, and a step
\* that fails ends the run with no later step executed.
C10_StepsInOrder ==
    \A w \in Runs :
        proc[w].kind = "transformer" =>
            /\ IsPrefix(proc[w].calls, Steps)
            /\ proc[w].failed # "none" => proc[w].pc = "done"
            /\ proc[w].failed = "nokeys" => proc[w].calls = SubSeq(Steps, 1, 1)
            /\ proc[w].failed = "fetch" => proc[w].calls = SubSeq(Steps, 1, 2)
            /\ proc[w].failed = "decode" => proc[w].calls = SubSeq(Steps, 1, 3)
            /\ proc[w].failed \in {"insert", "unlink"} => proc[w].calls = SubSeq(Steps, 1, 5)

\* a Transformer.run has gone through all six steps
C10_Witness ==
    \E w \in Runs :
        /\ proc[w].kind = "transformer" /\ proc[w].pc = "done"
        /\ proc[w].calls = Steps /\ proc[w].outcome = "returned"

\* C11: for every date D, Transformer.run(D) uses the window from noon of D
\* to noon of D+1 (24 hours later): the keys it lists have their timestamp
\* in that window, a complete listing holds every key of the bucket in it,
\* and every extracted polygon has these two instants as start_time and
\* end_time.
C11_NoonToNoonWindow ==
    /\ \A d \in 0..MaxDay :
          /\ start_of_day(d) \div 2 = d /\ start_of_day(d) % 2 = 1
          /\ end_of_day(d) \div 2 = d + 1 /\ end_of_day(d) % 2 = 1
          /\ end_of_day(d) - start_of_day(d) = 2
    /\ \A w \in Runs :
          (proc[w].kind = "transformer" /\ proc[w].pc \notin {"idle", "done"}) =>
             LET noon == 2 * proc[w].date + 1
                 next_noon == 2 * (proc[w].date + 1) + 1
             IN  /\ proc[w].start = noon /\ proc[w].end = next_noon
                 /\ \A i \in 1..Len(proc[w].keys) :
                       noon <= proc[w].keys[i] /\ proc[w].keys[i] <= next_noon
                 /\ (proc[w].pc = "fetch" /\ proc[w].listing = "complete") =>
                       SeqToSet(proc[w].keys) =
                          {t \in Slots : bucket[t] # Absent /\ noon <= t /\ t <= next_noon}
                 /\ \A i \in 1..Len(proc[w].fc) :
                       /\ proc[w].fc[i].start_time = noon
                       /\ proc[w].fc[i].end_time = next_noon

\* a Transformer.run has extracted polygons from the midnight key, which the
\* window of a calendar day would miss
C11_Witness ==
    \E w \in Runs :
        /\ proc[w].kind = "transformer" /\ proc[w].pc = "insert"
        /\ proc[w].local_path = 2 /\ proc[w].fc # <<>>

\* C12: when the listing returned keys, Transformer.run fetches exactly one
\* source, the key with the latest timestamp, and decodes that file: in
\* every step the only file that can appear in the cache is the latest key
\* of a run taking its fetch step, a run leaves its fetch step holding the
\* path of its latest key, and the grid it decodes is the content of that key.
C12_FetchesOnlyLastKey ==
    [][/\ \A t \in files' \ files :
             \E w \in Runs :
                /\ proc[w].pc = "fetch" /\ proc'[w].pc # "fetch"
                /\ t \in SeqToSet(proc[w].keys)
                /\ \A k \in SeqToSet(proc[w].keys) : k <= t
       /\ \A w \in Runs :
             proc[w].kind = "transformer" =>
                /\ (proc[w].pc = "fetch" /\ proc'[w].pc = "decode") =>
                      /\ proc'[w].local_path \in SeqToSet(proc[w].keys)
                      /\ \A k \in SeqToSet(proc[w].keys) : k <= proc'[w].local_path
                      /\ proc'[w].local_path \in files'
                /\ (proc[w].pc = "decode" /\ proc'[w].pc = "extract") =>
                      proc'[w].data = bucket[proc[w].local_path]]_vars

\* a Transformer.run whose listing held both keys has decoded the later one
C12_Witness ==
    \E w \in Runs :
        /\ proc[w].kind = "transformer" /\ proc[w].pc = "extract"
        /\ proc[w].listing = "complete" /\ proc[w].local_path = 2
        /\ bucket[1] # Absent /\ bucket[2] # Absent

\* C13: in Ingester.run over [start_date, end_date] Transformer.run is
\* invoked at most once per date and never for a date outside the range;
\* when Ingester.run returns it was invoked exactly once for every date of
\* the range, whatever days raised; and no day's exception leaves
\* Ingester.run: it raises only for start_date > end_date.
C13_EveryDayRunsOnce ==
    /\ \A d \in Days :
          /\ batch.calls[d] <= 1
          /\ (d < batch.start_date \/ d > batch.end_date) => batch.calls[d] = 0
    /\ batch.pc = "returned" =>
          \A d \in Days : (batch.start_date <= d /\ d <= batch.end_date) => batch.calls[d] = 1
    /\ batch.pc = "raised" => batch.start_date > batch.end_date

\* Ingester.run has returned although the first day's run raised, and a
\* later day has run and returned
C13_Witness ==
    /\ batch.pc = "returned"
    /\ Len(batch.days) >= 2
    /\ batch.fut[1] = "raised"
    /\ \E i \in 2..Len(batch.days) : batch.fut[i] = "returned"

\* C14: for start_date <= end_date Ingester.run returns, under every
\* interleaving of the worker threads, total = end - start + 1, failed = the
\* number of days whose run raised, completed = the number of days whose run
\* returned, and completed + failed = total.
C14_SummaryCounts ==
    /\ batch.pc = "returned" =>
          /\ batch.start_date <= batch.end_date
          /\ batch.summary.total = batch.end_date - batch.start_date + 1
          /\ batch.summary.failed =
                Cardinality({d \in Days : batch.start_date <= d /\ d <= batch.end_date
                               /\ batch.fut[d - batch.start_date + 1] = "raised"})
          /\ batch.summary.completed =
                Cardinality({d \in Days : batch.start_date <= d /\ d <= batch.end_date
                               /\ batch.fut[d - batch.start_date + 1] = "returned"})
          /\ batch.summary.completed + batch.summary.failed = batch.summary.total
    /\ batch.pc = "pool" => batch.completed + batch.failed = Cardinality(batch.seen)

\* a batch over the whole range has returned with days of both outcomes,
\* collected in another order than they were submitted
C14_Witness ==
    /\ batch.pc = "returned"
    /\ batch.summary.total = MaxDay + 1
    /\ batch.summary.failed >= 1 /\ batch.summary.completed >= 1
    /\ batch.workers >= 2

\* C15: when the store holds no row of the date and P is not empty, the
\* unfiltered get_swaths(date) straight after insert_swaths(P, date) returns
\* the polygons of P, each as often as in P, in some order.
C15_RoundTrip ==
    (/\ call.fn = "insert_swaths" /\ call.pc = "returned"
     /\ ~swaths_exist(call.rows0, call.valid_date)
     /\ call.features # <<>>)
        => /\ call.result.type = "FeatureCollection"
           /\ SameBag(call.result.features, call.features)

\* the round trip of three polygons of two thresholds, stored in two rows
\* next to the rows of another date and read back in another order
C15_Witness ==
    /\ call.fn = "insert_swaths" /\ call.pc = "returned"
    /\ ~swaths_exist(call.rows0, call.valid_date) /\ call.rows0 # <<>>
    /\ Len(call.features) = 3 /\ call.inserted = 2
    /\ call.features[1].threshold = 50 /\ call.features[2].threshold = 75
    /\ call.features[3].threshold = 50
    /\ call.result.features # call.features

\* C16: get_swaths with a non-empty threshold filter returns exactly the
\* stored polygons of the rows of that date whose threshold is in the filter:
\* no polygon of another threshold or date, and every matching one.
C16_ThresholdFilterExact ==
    (/\ call.fn = "get_swaths" /\ call.pc = "returned"
     /\ call.thresholds # <<>> /\ call.bbox = NoBbox)
        => LET matching == {i \in 1..Len(call.rows) :
                               /\ call.rows[i].valid_date = call.valid_date
                               /\ call.rows[i].threshold \in SeqToSet(call.thresholds)}
               got == call.result.features
           IN  /\ \A j \in 1..Len(got) :
                     /\ got[j].threshold \in SeqToSet(call.thresholds)
                     /\ got[j].start_time = start_of_day(call.valid_date)
                     /\ \E i \in matching : got[j] \in SeqToSet(call.rows[i].features)
               /\ \A i \in matching : \A x \in SeqToSet(call.rows[i].features) :
                     CountIn(got, x) = CountIn(call.rows[i].features, x)
               /\ \A i \in 1..Len(call.rows) : i \notin matching =>
                     \A x \in SeqToSet(call.rows[i].features) : CountIn(got, x) = 0

\* a filtered read that returns the polygons of one row while the store
\* holds another threshold of the date and the same threshold of another date
C16_Witness ==
    /\ call.fn = "get_swaths" /\ call.pc = "returned"
    /\ call.thresholds = <<75>> /\ call.bbox = NoBbox
    /\ Len(call.rows) = 4
    /\ Len(call.result.features) = 2

\* C17: get_swaths with a bbox returns, for every stored polygon of the date
\* that overlaps the region, one feature whose geometry is the intersection
\* with the region and whose properties are the stored ones, in the stored
\* order, and nothing for a polygon that does not intersect the region.
C17_RegionClip ==
    (/\ call.fn = "get_swaths" /\ call.pc = "returned" /\ call.bbox # NoBbox)
        => LET region == {c \in Cells : call.bbox[1] <= c /\ c <= call.bbox[2]}
               stored == Flatten(RowFeatures(OrderDesc(
                            SelectSeq(call.rows, LAMBDA r : r.valid_date = call.valid_date))))
               overlapping == {i \in 1..Len(stored) : stored[i].geometry \cap region # {}}
               got == call.result.features
           IN  /\ Len(got) = Cardinality(overlapping)
               /\ \A j \in 1..Len(got) :
                     \E i \in overlapping :
                        /\ got[j] = [stored[i] EXCEPT !.geometry = stored[i].geometry \cap region]
                        /\ Cardinality({k \in overlapping : k < i}) = j - 1
               /\ (overlapping = {}) => got = <<>>

\* a clipped read that drops one stored polygon, cuts another down to the
\* region and returns a third whole
C17_Witness ==
    /\ call.fn = "get_swaths" /\ call.pc = "returned" /\ call.bbox = <<1, 1>>
    /\ \E i \in 1..Len(call.rows) :
          /\ call.rows[i].valid_date = call.valid_date
          /\ \E k \in 1..Len(call.rows[i].features) : call.rows[i].features[k].geometry = {GridCells}
    /\ \E i \in 1..Len(call.rows) :
          /\ call.rows[i].valid_date = call.valid_date
          /\ \E k \in 1..Len(call.rows[i].features) : call.rows[i].features[k].geometry = Cells
    /\ Len(call.result.features) = 2
    /\ \A j \in 1..2 : call.result.features[j].geometry = {1}

\* C18: composite_max of a non-empty list of grids is, cell by cell, the
\* largest value that is not missing, and missing exactly where every grid
\* is missing; every reordering of the list gives the same grid.
C18_CompositeMaxOrderFree ==
    (call.fn = "composite_max" /\ call.pc = "returned")
        => LET n == Len(call.arrays)
           IN  /\ \A c \in Cells :
                     LET present == {call.arrays[i][c] : i \in 1..n} \ {NaN}
                     IN  /\ call.result[c] = IF present = {} THEN NaN ELSE SetMax(present)
                         /\ call.result[c] = NaN <=> \A i \in 1..n : call.arrays[i][c] = NaN
               /\ \A p \in Reorderings(n) :
                     composite_max([i \in 1..n |-> call.arrays[p[i]]]) = call.result

\* the composite of three different grids: one cell is missing in the first,
\* smaller in the second than in the third; another is missing in all three
C18_Witness ==
    /\ call.fn = "composite_max" /\ call.pc = "returned"
    /\ Len(call.arrays) = 3
    /\ \E c \in Cells : /\ call.arrays[1][c] = NaN /\ call.arrays[2][c] = 80
                         /\ call.arrays[3][c] = 60 /\ call.result[c] = 80
    /\ \E c \in Cells : call.result[c] = NaN

\* C19: in grid_to_swaths a cell is covered by the polygons of a threshold
\* exactly when its smoothed value (after missing cells were filled with 0)
\* is >= the threshold and its original value is not missing; a missing
\* cell is covered for no threshold, whatever its smoothed value.
C19_MaskDerivation ==
    (call.fn = "grid_to_swaths" /\ call.pc = "returned")
        => LET smoothed == gaussian_filter(data_filled(call.data))
           IN  /\ \A t \in SeqToSet(call.thresholds) : \A c \in Cells :
                     c \in Covered(call.result.features, t)
                        <=> (smoothed[c] >= t /\ call.data[c] # NaN)
               /\ \A j \in 1..Len(call.result.features) :
                     /\ call.result.features[j].threshold \in SeqToSet(call.thresholds)
                     /\ \A c \in call.result.features[j].geometry : call.data[c] # NaN

\* an extraction in which a missing cell has a smoothed value over a
\* threshold and stays uncovered, next to a covered cell
C19_Witness ==
    /\ call.fn = "grid_to_swaths" /\ call.pc = "returned"
    /\ \E c \in Cells :
          /\ call.data[c] = NaN
          /\ gaussian_filter(data_filled(call.data))[c] >= 50
          /\ c \notin Covered(call.result.features, 50)
    /\ Covered(call.result.features, 50) # {}

\* C21: in grid_to_swaths a threshold whose mask selects no cell (every
\* smoothed value below it, or every cell missing) contributes no polygon,
\* the call still returns a FeatureCollection, and every other threshold of
\* the call whose mask is not empty still contributes its polygons.
C21_EmptyMaskIsNoError ==
    (call.fn = "grid_to_swaths" /\ call.pc = "returned")
        => LET smoothed == gaussian_filter(data_filled(call.data))
               got == call.result.features
           IN  /\ call.result.type = "FeatureCollection"
               /\ \A t \in SeqToSet(call.thresholds) :
                     /\ Mask(smoothed, call.data, t) = {}
                           => \A j \in 1..Len(got) : got[j].threshold # t
                     /\ Mask(smoothed, call.data, t) # {}
                           => \E j \in 1..Len(got) : got[j].threshold = t
               /\ (\A c \in Cells : call.data[c] = NaN) => got = <<>>

\* an extraction whose highest threshold selects no cell while a lower
\* one, processed after it, yields a polygon
C21_Witness ==
    /\ call.fn = "grid_to_swaths" /\ call.pc = "returned"
    /\ call.thresholds = <<75, 100, 50>>
    /\ Mask(gaussian_filter(data_filled(call.data)), call.data, 100) = {}
    /\ \A j \in 1..Len(call.result.features) : call.result.features[j].threshold # 100
    /\ \E j \in 1..Len(call.result.features) : call.result.features[j].threshold = 50

\* C23: every feature one grid_to_swaths call returns carries exactly
\* geometry, threshold, product, start_time, end_time, source_files and
\* created_at; its threshold is the threshold of the mask its geometry lies
\* in, product, start_time, end_time and source_files are the call's
\* arguments, and created_at is the same for all features of the call.
C23_AttributeTagging ==
    (call.fn = "grid_to_swaths" /\ call.pc = "returned")
        => LET smoothed == gaussian_filter(data_filled(call.data))
               got == call.result.features
           IN  \A j \in 1..Len(got) :
                  /\ DOMAIN got[j] = {"geometry", "threshold", "product", "start_time",
                                      "end_time", "source_files", "created_at"}
                  /\ got[j].threshold \in SeqToSet(call.thresholds)
                  /\ got[j].geometry # {}
                  /\ got[j].geometry \subseteq Mask(smoothed, call.data, got[j].threshold)
                  /\ got[j].product = call.props.product
                  /\ got[j].start_time = call.props.start_time
                  /\ got[j].end_time = call.props.end_time
                  /\ got[j].source_files = call.props.source_files
                  /\ \A k \in 1..Len(got) : got[k].created_at = got[j].created_at

\* a call that returned polygons of three thresholds, whose masks differ
C23_Witness ==
    /\ call.fn = "grid_to_swaths" /\ call.pc = "returned"
    /\ {call.result.features[j].threshold : j \in 1..Len(call.result.features)} = {50, 75, 100}
    /\ \E j, k \in 1..Len(call.result.features) :
          call.result.features[j].geometry # call.result.features[k].geometry
    /\ call.props.start_time = start_of_day(1)

\* C24: Scenario A, a grid of 0.50 in with a block of 2 x 2 cells at 3.00 in,
\* extracted with the default tuning parameters, gives exactly one polygon
\* of at least 4 cells for the threshold 1.00 in and none for 3.50 in.
C24_ScenarioA ==
    (call.fn = "grid_to_swaths_2d" /\ call.pc = "returned")
        => /\ Cardinality(call.result[100]) = 1
           /\ \A r \in call.result[100] : Cardinality(r) >= 4
           /\ call.result[350] = {}

\* C26: list_files returns exactly the keys of its listings whose file name
\* ends in a timestamp t with start <= t <= end, both ends included; a key
\* without a timestamp is skipped; the keys come in ascending order of
\* their timestamps.
C26_WindowedSortedKeys ==
    (call.fn = "list_files" /\ call.pc = "returned")
        => LET got == call.result
               listed == {k \in call.objects :
                             /\ DateOf(call.start) <= k.folder /\ k.folder <= DateOf(call.end)
                             /\ k.folder \notin call.thrown}
           IN  /\ SeqToSet(got) = {k \in listed : /\ k.stamp # BadStamp
                                                  /\ call.start <= k.stamp
                                                  /\ k.stamp <= call.end}
               /\ \A i, j \in 1..Len(got) : i < j => got[i].stamp < got[j].stamp

\* a listing over two folders that returns the key stamped at start and the
\* key stamped at end, skips the key without a timestamp and leaves out an
\* earlier key of the first folder
C26_Witness ==
    /\ call.fn = "list_files" /\ call.pc = "returned"
    /\ call.start = 1 /\ call.end = 3 /\ call.thrown = {}
    /\ {Key(0, 0), Key(0, 1), Key(1, BadStamp), Key(1, 3)} \subseteq call.objects
    /\ Len(call.result) >= 2
    /\ call.result[1] = Key(0, 1)
    /\ call.result[Len(call.result)] = Key(1, 3)

\* C25: every value of the grid decode_grib2 returns is NaN or a number
\* >= 0; a raw value at or above half the largest magnitude of the format,
\* and a negative raw value, is NaN in the result, and every other raw value
\* v is v / 25.4 in the result.
C25_DecodedGridInvariant ==
    (call.fn = "decode_grib2" /\ call.pc = "returned")
        => \A c \in Cells :
              /\ call.result[c] = NaN \/ call.result[c] >= 0
              /\ (2 * call.raw[c] >= MRMS_MISSING_VALUE \/ call.raw[c] < 0)
                    => call.result[c] = NaN
              /\ (2 * call.raw[c] < MRMS_MISSING_VALUE /\ call.raw[c] >= 0)
                    => /\ call.result[c] # NaN
                       /\ call.result[c] * MM_PER_INCH <= call.raw[c] * 100
                       /\ call.raw[c] * 100 < (call.result[c] + 1) * MM_PER_INCH

\* a decoded grid with a cell that held exactly half the largest magnitude
\* and is NaN, next to a cell of 50.8 mm that became 2.00 in
C25_Witness ==
    /\ call.fn = "decode_grib2" /\ call.pc = "returned"
    /\ \E c \in Cells : 2 * call.raw[c] = MRMS_MISSING_VALUE /\ call.result[c] = NaN
    /\ \E c \in Cells : call.raw[c] = 508 /\ call.result[c] = 200

\* C27: a fetch_file of a key whose decompressed file is in the cache
\* directory downloads nothing, returns the path of that file and leaves
\* the directory and the file as they were; of two successful fetches of
\* one key in a row both return the same path and the second downloads
\* nothing.
C27_FetchIdempotent ==
    call.fn = "fetch_file"
        => /\ \A k \in 1..Len(call.paths) :
                 FinalName(call.key) \in DOMAIN call.caches[k]
                    => /\ call.downloads[k] = 0
                       /\ call.paths[k] = <<FinalName(call.key)>>
                       /\ call.caches[k + 1] = call.caches[k]
           /\ call.pc = "returned"
                 => /\ call.paths[1] = call.paths[2]
                    /\ call.downloads[2] = 0
                    /\ call.caches[3] = call.caches[2]

\* a key fetched twice while S3 changed its object in between: the first
\* fetch downloaded the file into a cache that held another one
C27_Witness ==
    /\ call.fn = "fetch_file" /\ call.pc = "returned"
    /\ call.downloads = <<1, 0>>
    /\ call.objects[1] # call.objects[2]
    /\ DOMAIN call.caches[1] # {}
    /\ call.caches[3][FinalName(call.key)] = call.objects[1]

C29_SurvivesFailures ==
    call.fn = "start"
        => /\ \A i \in RunsOf(call.log) :
                 call.log[i].outcome = "Exception"
                    => /\ i = Len(call.log) => call.pc = "sleep"
                       /\ i < Len(call.log)
                            => call.log[i + 1].op = "sleep"
                                 /\ call.log[i + 1].seconds = INTERVAL_SECONDS
                       /\ i + 1 = Len(call.log) => call.pc = "loop"
                       /\ \A j \in (i + 2)..Len(call.log) :
                            call.log[j].op = "run_once"
                               => \E k \in (i + 2)..(j - 1) : call.log[k].op = "now"
           /\ call.pc = "stopped"
                 => Last(call.log).op = "run_once" /\ Last(call.log).outcome = "BaseException"

\* a run_once raised an Exception and, a day later, run_once ran again
C29_Witness ==
    /\ call.fn = "start"
    /\ \E i \in RunsOf(call.log), j \in RunsOf(call.log) :
          /\ i < j
          /\ call.log[i].outcome = "Exception"
          /\ call.log[j].at >= call.log[i].at + INTERVAL_SECONDS

\* C30: Transformer.run of a string that is no valid date raises ValueError
\* before the store is connected to or asked and before any listing, fetch
\* or insert; Ingester.run with start_date after end_date raises ValueError
\* before any day is submitted; neither changes the store or the cache.
C30_FailFast ==
    /\ [](\A w \in Runs :
            (proc[w].kind = "transformer" /\ proc[w].date = InvalidDate)
                => /\ proc[w].pc = "done"
                   /\ proc[w].outcome = "raised" /\ proc[w].failed = "date"
                   /\ proc[w].calls = <<>> /\ ~proc[w].hit
                   /\ proc[w].listing = "none")
    /\ []((batch # NoBatch /\ batch.start_date > batch.end_date)
            => /\ batch.pc \in {"called", "raised"}
               /\ batch.fut = <<>>
               /\ \A d \in Days : batch.calls[d] = 0)
    /\ [][(\/ \E w \in Runs : (proc'[w] # proc[w] /\ proc'[w].date = InvalidDate)
            \/ (batch' # batch /\ batch'.pc = "raised"))
           => /\ store' = store /\ pending' = pending
              /\ files' = files /\ lastResult' = lastResult]_vars

\* a Transformer.run was refused for its date string while the store held
\* rows and the cache a file of another run that was under way
C30_Witness ==
    \E w \in Runs, u \in Runs :
        /\ proc[w].kind = "transformer" /\ proc[w].date = InvalidDate
        /\ proc[w].pc = "done" /\ proc[w].outcome = "raised"
        /\ u # w /\ proc[u].pc \notin {"idle", "done"}
        /\ files # {}

\* C31: two Transformer.run calls for one date that run at the same time
\* keep their source file: the file a run fetched is still in the cache
\* when the run decodes it and when it deletes it, whatever the other run
\* did in between, and no run raises from its cleanup.
C31_ConcurrentRunsKeepTheirFile ==
    \A w \in Runs, u \in Runs :
        (/\ w # u
         /\ proc[w].kind = "transformer" /\ proc[u].kind = "transformer"
         /\ proc[w].date = proc[u].date /\ proc[w].date # InvalidDate)
        => /\ proc[w].pc \in {"decode", "unlink"} => proc[w].local_path \in files
           /\ proc[w].failed # "unlink"

\* C32: the rows of one insert_swaths call enter the store together, at its
\* commit and nowhere else; a call that fails before its commit leaves the
\* store as it was and its rows are dropped; and until the commit no other
\* connection sees any of the call's rows.
C32_AtomicInsert ==
    /\ [][store' # store
            => \E w \in Runs :
                  /\ proc[w].pc = "execute" /\ proc[w].todo = <<>>
                  /\ proc'[w].pc = "cleanup"
                  /\ store' = store \o pending[w]
                  /\ pending'[w] = <<>>]_vars
    /\ [][\A w \in Runs :
            (proc[w].pc = "execute" /\ proc'[w].pc = "done")
                => store' = store /\ pending'[w] = <<>>]_vars
    /\ [](\A w \in Runs, u \in Runs :
            w # u => \A i \in 1..Len(pending[w]), j \in 1..Len(store \o pending[u]) :
                        (store \o pending[u])[j] # pending[w][i])

\* a call has committed two threshold rows at once while another run was
\* between its store check and its own insert
C32_Witness ==
    \E w \in Runs, u \in Runs :
        /\ w # u
        /\ proc[w].pc = "cleanup" /\ proc[w].inserted = 2
        /\ Len(store) = 2 /\ \A j \in 1..2 : store[j].features[1].created_at = w
        /\ proc[u].pc \in {"list", "fetch", "decode", "extract", "insert"}

\* C33: once a date's rows are stored the file fetched for it is deleted in
\* the end, also when the process died between the commit and the deletion
\* and Transformer.run was called again for the date: after that second
\* call has returned the cache holds no file.
C33_CleanupAfterCrash ==
    \A w \in Runs, u \in Runs :
        (/\ proc[w].pc = "done" /\ proc[w].outcome = "crashed"
         /\ proc[u].kind = "transformer" /\ proc[u].date = proc[w].date
         /\ proc[u].pc = "done" /\ proc[u].outcome = "returned" /\ proc[u].hit
         /\ swaths_exist(store, proc[w].date))
        => files = {}

\* the features Transformer.run extracts for date d from the bucket when
\* nothing fails, without the time of their creation
DayRecord(d) ==
    LET keys == list_files(bucket, start_of_day(d), end_of_day(d), {})
        props == [product |-> "MESH_Max_1440min", start_time |-> start_of_day(d),
                  end_time |-> end_of_day(d), source_files |-> <<Last(keys)>>,
                  created_at |-> 0]
    IN  IF keys = <<>> THEN <<>>
        ELSE grid_to_swaths(bucket[Last(keys)], DEFAULT_THRESHOLDS, props, NoBbox).features

Timeless(features) == [i \in 1..Len(features) |-> [features[i] EXCEPT !.created_at = 0]]

\* C34: what is stored for a date does not depend on who asked for it: the
\* features a run hands to insert_swaths, its listing having lost no key,
\* are those Transformer.run extracts for the date, whether the run is a
\* Transformer.run or a request of the API and whatever the request's
\* window, thresholds and bbox.
C34_RecordIndependentOfCaller ==
    \A w \in Runs :
        (proc[w].pc = "insert" /\ proc[w].listing = "complete")
            => Timeless(proc[w].fc) = DayRecord(proc[w].date)

\* C35: whatever the order of the thresholds argument of grid_to_swaths and
\* whatever thresholds it repeats, the features returned are in
\* non-increasing order of their threshold, so the features of one
\* threshold are next to each other.
C35_HighestThresholdFirst ==
    (call.fn = "grid_to_swaths" /\ call.pc = "returned")
        => LET got == call.result.features
           IN  /\ \A i \in 1..Len(got), j \in 1..Len(got) :
                     i < j => got[i].threshold >= got[j].threshold
               /\ \A i \in 1..Len(got), j \in 1..Len(got), k \in 1..Len(got) :
                     (i < j /\ j < k /\ got[i].threshold = got[k].threshold)
                        => got[j].threshold = got[i].threshold

\* thresholds given out of order with one repeated, and features returned
\* for both of them
C35_Witness ==
    /\ call.fn = "grid_to_swaths" /\ call.pc = "returned"
    /\ call.thresholds = <<50, 75, 50>>
    /\ \E i \in 1..Len(call.result.features), j \in 1..Len(call.result.features) :
          /\ call.result.features[i].threshold = 75
          /\ call.result.features[j].threshold = 50

\* cells that share an edge
EdgeNeighbours(x, y) ==
    \/ x[1] = y[1] /\ (x[2] = y[2] + 1 \/ y[2] = x[2] + 1)
    \/ x[2] = y[2] /\ (x[1] = y[1] + 1 \/ y[1] = x[1] + 1)

\* a region that cannot be split in two parts with no edge between them
Connected4(region) ==
    \A part \in SUBSET region :
        (part # {} /\ part # region)
            => \E x \in part, y \in region \ part : EdgeNeighbours(x, y)

\* C36: the geometries _polygonize_threshold gets for a mask are its maximal
\* 4-connected regions: they are disjoint and cover the mask, each is
\* connected through shared edges, and no two of them share an edge, so
\* cells that touch only at a corner are in different polygons and, before
\* the area filter, there are as many features as components.
C36_OnePolygonPerRegion ==
    (call.fn = "_polygonize_threshold" /\ call.pc = "returned")
        => LET mask == {x \in call.cells : call.data[x[1]][x[2]] # NaN}
           IN  /\ UNION call.result = mask
               /\ \A r \in call.result : r # {} /\ Connected4(r)
               /\ \A r \in call.result, q \in call.result :
                     r # q => /\ r \cap q = {}
                              /\ \A x \in r, y \in q : ~EdgeNeighbours(x, y)

\* a mask of two cells touching at a corner gave two polygons
C36_Witness ==
    /\ call.fn = "_polygonize_threshold" /\ call.pc = "returned"
    /\ call.cells = {<<1, 1>>, <<2, 2>>} /\ call.data[2][2] # NaN
    /\ Cardinality(call.result) = 2

\* C37: a Transformer.run that ends on an empty listing, a fetch that raised
\* or a decode that raised has called neither the insert nor the deletion,
\* and none of its steps changed the store, an open transaction or
\* exists(date), or took a file out of the cache.
C37_EarlyExitTouchesNothing ==
    /\ [](\A w \in Runs :
            (proc[w].kind = "transformer" /\ proc[w].failed \in {"nokeys", "fetch", "decode"})
                => /\ proc[w].pc = "done"
                   /\ proc[w].result = _empty_feature_collection
                   /\ ~Called(proc[w], "insert") /\ ~Called(proc[w], "unlink")
                   /\ pending[w] = <<>>)
    /\ [][\A w \in Runs :
            (/\ proc[w].kind = "transformer" /\ proc'[w] # proc[w]
             /\ proc[w].pc \in {"check", "list", "fetch", "decode"})
                => /\ store' = store /\ pending' = pending
                   /\ files \subseteq files'
                   /\ \A d \in Dates : swaths_exist(store', d) = swaths_exist(store, d)]_vars

\* a Transformer.run ended on a decode failure with its file still in the
\* cache, beside a store that another run had filled
C37_Witness ==
    \E w \in Runs :
        /\ proc[w].kind = "transformer" /\ proc[w].pc = "done"
        /\ proc[w].failed = "decode"
        /\ files # {} /\ store # <<>>

C39_FailedFetchLeavesNoFile ==
    call.fn = "fetch_file"
        => \A k \in 1..Len(call.paths) :
              /\ call.paths[k] = <<>> => FinalName(call.key) \notin DOMAIN call.caches[k + 1]
              /\ call.paths[k] # <<>> => call.caches[k + 1][FinalName(call.key)] # Partial

\* C40: the dates DailyIngestJob.start() hands to Transformer.run in
\* consecutive cycles are consecutive calendar dates, whenever the service
\* was started and however long each run_once took.
C40_NoDateSkipped ==
    call.fn = "start"
        => \A i \in RunsOf(call.log), j \in RunsOf(call.log) :
              (i < j /\ \A k \in RunsOf(call.log) : ~(i < k /\ k < j))
                 => call.log[j].date = call.log[i].date + 1

====
